---- MODULE Spec2Model ----
(***************************************************************************)
(* go-gist: upload local files to GitHub Gist.                             *)
(*                                                                         *)
(* The model follows main.go: init() (flags and token), main() calling     *)
(* checkForArgumentErrors, getFilesToUpload (one loop iteration per step)   *)
(* and processFiles (the dispatch loop, one goroutine per file, the        *)
(* buffered completion channel and the drain loop).  The package           *)
(* github.com/voidpirate/go-gist/file (LocalFile: New, Exists, Size,       *)
(* Upload, Name, and the unit KB) is not part of the sources at hand; its  *)
(* operations are modelled from the written specification.                 *)
(***************************************************************************)
EXTENDS Integers, Sequences, FiniteSets, TLC

\* ------------------------------------------------------------------ bounds

\* The longest command line (number of positional arguments) explored.
MaxFiles == 3

\* ------------------------------------------------------- the environment

\* file.KB, the unit maxFilesize is expressed in.
KB == 1024

\* main.go:25  maxFilesize = file.KB * 50
maxFilesize == KB * 50

\* The paths a command line may name.  The filesystem is fixed for a run and
\* holds one file of every class the selector distinguishes.
Paths == {"a.txt", "missing.txt", "edge.bin", "over.bin"}

\* The paths that exist on the filesystem.
OnDisk == Paths \ {"missing.txt"}

\* The size in bytes of each path that exists.
DiskSize(p) ==
    CASE p = "a.txt"    -> KB
      [] p = "edge.bin" -> maxFilesize
      [] p = "over.bin" -> maxFilesize + 1
      [] OTHER          -> 0

\* The error values of the program.
Nil == "nil"
ErrNotExist == "file does not exist"
ErrNoFiles == "go-gist: no files to upload"
ErrUpload == "create gist: remote call failed"
ErrName == "name: cannot compute display name"

\* The messages of log.Fatal.
FatalNoToken == "Environment variable required but missing: GITHUB_API_TOKEN"
FatalNothing == "Nothing to do"
FatalBoth == "Can't upload and dryrun at the same time"
FatalNoArgs == "Selected -upload with no files"

\* ------------------------------------------------------------- LocalFile

\* file.New(f, dryRun)
New(path, dry) == [FilePath |-> path, dryRun |-> dry]

\* LocalFile.Exists(): the error is non-nil exactly when the filesystem
\* reports that the path does not exist.
Exists(f) == IF f.FilePath \in OnDisk THEN Nil ELSE ErrNotExist

\* LocalFile.Size(): the size in bytes.
Size(f) == DiskSize(f.FilePath)

\* LocalFile.Upload makes the remote create-call unless the file was made
\* for a dry run, in which case it only describes the file.
UploadCallsRemote(f) == ~f.dryRun

\* The zero value of fileStatus, which a receive on a closed channel yields.
ZeroStatus == [f |-> New("", FALSE), err |-> Nil]

\* All sequences over S of length at most n.
SeqUpTo(S, n) == UNION {[1..m -> S] : m \in 0..n}

VARIABLES
    pc,               \* where the process is
    upload,           \* -upload
    dryRun,           \* -dryrun
    allowLargeFiles,  \* -allow-large-files
    githubToken,      \* os.Getenv("GITHUB_API_TOKEN")
    argFiles,         \* flag.Args()
    called,           \* the functions of main.go entered so far
    idx,              \* getFilesToUpload: the loop's position in files
    filesToUpload,    \* getFilesToUpload: the list built so far / returned
    selErr,           \* the error getFilesToUpload returned
    fsQueries,        \* the Exists and Size queries made, in order
    log,              \* the log entries written, in order
    fatalMsg,         \* the message of log.Fatal, once called
    ch,               \* processFiles: the buffered outcomes of the channel
    chCap,            \* processFiles: the channel's capacity
    chClosed,         \* processFiles: whether the channel is closed
    closes,           \* processFiles: the calls of close(ch) made
    pos,              \* processFiles: the dispatch loop's position in the list
    tasks,            \* the goroutines started, in order
    remoteCalls,      \* the remote create-calls made so far
    drained,          \* processFiles: iterations of the drain loop done
    received,         \* processFiles: the values received from the channel
    named             \* processFiles: the results of the calls of Name, in order

vars == <<pc, upload, dryRun, allowLargeFiles, githubToken, argFiles, called,
          idx, filesToUpload, selErr, fsQueries, log, fatalMsg, ch, chCap,
          chClosed, closes, pos, tasks, remoteCalls, drained, received, named>>

config == <<upload, dryRun, allowLargeFiles, githubToken, argFiles>>
selector == <<idx, filesToUpload, selErr, fsQueries>>
dispatcher == <<ch, chCap, chClosed, closes, pos, tasks, remoteCalls, drained,
                received, named>>

Init ==
    /\ pc = "init"
    /\ upload \in BOOLEAN
    /\ dryRun \in BOOLEAN
    /\ allowLargeFiles \in BOOLEAN
    /\ githubToken \in {"", "token"}
    /\ argFiles \in SeqUpTo(Paths, MaxFiles)
    /\ called = {}
    /\ idx = 1
    /\ filesToUpload = <<>>
    /\ selErr = Nil
    /\ fsQueries = <<>>
    /\ log = <<>>
    /\ fatalMsg = ""
    /\ ch = <<>>
    /\ chCap = 0
    /\ chClosed = FALSE
    /\ closes = 0
    /\ pos = 1
    /\ tasks = <<>>
    /\ remoteCalls = 0
    /\ drained = 0
    /\ received = <<>>
    /\ named = <<>>

\* log.Fatal(msg): write the entry and exit with status 1.
Fatal(msg) ==
    /\ pc' = "fatal"
    /\ fatalMsg' = msg
    /\ log' = Append(log, <<"FATAL", msg>>)

\* A startup that does not look at the token.
TokenMissingNever == FALSE

\* if githubToken == ""
TokenMissing == githubToken = ""

\* init(): parse the flags, read the token, fail when it is empty.  The
\* flags and positional arguments of Init are the values flag.Parse leaves
\* behind on a command line it accepts.
InitFn ==
    /\ pc = "init"
    /\ IF TokenMissing
          THEN Fatal(FatalNoToken)
          ELSE /\ pc' = "main"
               /\ UNCHANGED <<log, fatalMsg>>
    /\ UNCHANGED <<config, called, selector, dispatcher>>

\* A validation without the check for -upload together with -dryrun.
ArgumentErrorNoConflict ==
    IF ~upload /\ ~dryRun THEN FatalNothing
    ELSE IF upload /\ Len(argFiles) = 0 THEN FatalNoArgs
    ELSE Nil

\* A validation without the check for -upload with no files.
ArgumentErrorNoArgCheck ==
    IF ~upload /\ ~dryRun THEN FatalNothing
    ELSE IF upload /\ dryRun THEN FatalBoth
    ELSE Nil

\* The fatal message checkForArgumentErrors ends with, or Nil.
ArgumentError ==
    IF ~upload /\ ~dryRun THEN FatalNothing
    ELSE IF upload /\ dryRun THEN FatalBoth
    ELSE IF upload /\ Len(argFiles) = 0 THEN FatalNoArgs
    ELSE Nil

\* checkForArgumentErrors()
checkForArgumentErrors ==
    /\ pc = "main"
    /\ called' = called \cup {"checkForArgumentErrors"}
    /\ IF ArgumentError # Nil
          THEN Fatal(ArgumentError)
          ELSE /\ pc' = "select"
               /\ fatalMsg' = fatalMsg
               /\ log' = IF dryRun
                            THEN Append(log, <<"INFO", "Doing dry run">>)
                            ELSE log
    /\ UNCHANGED <<config, selector, dispatcher>>

\* ------------------------------------------------------ getFilesToUpload

\* main(): argFiles := flag.Args(); getFilesToUpload(argFiles) is entered.
getFilesToUploadEnter ==
    /\ pc = "select"
    /\ pc' = "loop"
    /\ called' = called \cup {"getFilesToUpload"}
    /\ idx' = 1
    /\ filesToUpload' = <<>>
    /\ UNCHANGED <<config, selErr, fsQueries, log, fatalMsg, dispatcher>>

\* An existence check whose error is ignored.
NotFoundNever(f) == FALSE

\* if _, err := localFile.Exists(); err != nil
NotFound(f) == Exists(f) # Nil

\* A size check that also excludes a file of exactly the ceiling's size.
TooLargeInclusive(f) == ~allowLargeFiles /\ Size(f) >= maxFilesize

\* A size check that ignores -allow-large-files.
TooLargeIgnoringOverride(f) == Size(f) > maxFilesize

\* if !allowLargeFiles { if localFile.Size() > maxFilesize
TooLarge(f) == ~allowLargeFiles /\ Size(f) > maxFilesize

\* A loop that stops at the first excluded path instead of continuing.
getFilesToUploadStepBreak ==
    /\ pc = "loop"
    /\ idx <= Len(argFiles)
    /\ LET localFile == New(argFiles[idx], dryRun)
           p == localFile.FilePath
       IN  IF NotFound(localFile)
              THEN /\ log' = Append(log, <<"WARNING", "not found", p>>)
                   /\ fsQueries' = Append(fsQueries, <<"Exists", p>>)
                   /\ filesToUpload' = filesToUpload
                   /\ idx' = Len(argFiles) + 1
           ELSE IF TooLarge(localFile)
              THEN /\ log' = Append(log, <<"WARNING", "exceeds", p>>)
                   /\ fsQueries' = fsQueries \o <<<<"Exists", p>>, <<"Size", p>>>>
                   /\ filesToUpload' = filesToUpload
                   /\ idx' = Len(argFiles) + 1
           ELSE /\ log' = log
                /\ fsQueries' = fsQueries \o
                      (IF allowLargeFiles
                          THEN <<<<"Exists", p>>>>
                          ELSE <<<<"Exists", p>>, <<"Size", p>>>>)
                /\ filesToUpload' = Append(filesToUpload, localFile)
                /\ idx' = idx + 1
    /\ UNCHANGED <<pc, config, called, selErr, fatalMsg, dispatcher>>

\* One iteration of the loop over files.
getFilesToUploadStep ==
    /\ pc = "loop"
    /\ idx <= Len(argFiles)
    /\ LET localFile == New(argFiles[idx], dryRun)
           p == localFile.FilePath
       IN  IF NotFound(localFile)
              THEN /\ log' = Append(log, <<"WARNING", "not found", p>>)
                   /\ fsQueries' = Append(fsQueries, <<"Exists", p>>)
                   /\ filesToUpload' = filesToUpload
           ELSE IF TooLarge(localFile)
              THEN /\ log' = Append(log, <<"WARNING", "exceeds", p>>)
                   /\ fsQueries' = fsQueries \o <<<<"Exists", p>>, <<"Size", p>>>>
                   /\ filesToUpload' = filesToUpload
           ELSE /\ log' = log
                /\ fsQueries' = fsQueries \o
                      (IF allowLargeFiles
                          THEN <<<<"Exists", p>>>>
                          ELSE <<<<"Exists", p>>, <<"Size", p>>>>)
                /\ filesToUpload' = Append(filesToUpload, localFile)
    /\ idx' = idx + 1
    /\ UNCHANGED <<pc, config, called, selErr, fatalMsg, dispatcher>>

\* A selector that returns an empty list without an error.
EmptyListErrorNever(list) == Nil

\* if len(filesToUpload) == 0 { return filesToUpload, errors.New(...) }
EmptyListError(list) == IF Len(list) = 0 THEN ErrNoFiles ELSE Nil

\* The end of getFilesToUpload: the list, and an error when it is empty.
getFilesToUploadReturn ==
    /\ pc = "loop"
    /\ idx > Len(argFiles)
    /\ selErr' = EmptyListError(filesToUpload)
    /\ pc' = "selected"
    /\ UNCHANGED <<config, called, idx, filesToUpload, fsQueries, log,
                   fatalMsg, dispatcher>>

\* main(): if err != nil { log.Fatal(err) }, else build the client and call
\* processFiles.
mainCheckErr ==
    /\ pc = "selected"
    /\ IF selErr # Nil
          THEN Fatal(selErr)
          ELSE /\ pc' = "process"
               /\ UNCHANGED <<log, fatalMsg>>
    /\ UNCHANGED <<config, called, selector, dispatcher>>

\* ---------------------------------------------------------- processFiles

\* A channel with room for one outcome fewer than there are files.
ChanCapacityShort == Len(filesToUpload) - 1

\* make(chan fileStatus, len(filesToProcess)): the channel's capacity.
ChanCapacity == Len(filesToUpload)

\* A dispatcher that leaves the channel open in a dry run.
ClosedAtStartNever == FALSE

\* A dispatcher that closes the channel in every mode.
ClosedAtStartAlways == TRUE

\* if dryRun { close(ch) }: whether the channel is closed before the loops.
ClosedAtStart == dryRun

\* ch := make(chan fileStatus, len(filesToProcess)); if dryRun { close(ch) }
processFilesEnter ==
    /\ pc = "process"
    /\ called' = called \cup {"processFiles"}
    /\ ch' = <<>>
    /\ chCap' = ChanCapacity
    /\ chClosed' = ClosedAtStart
    /\ closes' = closes + (IF ClosedAtStart THEN 1 ELSE 0)
    /\ pos' = 1
    /\ pc' = IF Len(filesToUpload) = 0 THEN "drain" ELSE "dispatch"
    /\ UNCHANGED <<config, selector, log, fatalMsg, tasks, remoteCalls,
                   drained, received, named>>

\* A dispatch loop that starts a goroutine in a dry run too.
UploadsInlineNever == FALSE

\* if dryRun { f.Upload(ctx, uploadClient); continue }: whether the dispatch
\* loop makes the call itself instead of starting a goroutine.
UploadsInline == dryRun

\* A goroutine that reads the loop variable after the loop has moved on,
\* instead of its own argument.
TaskFileLast(p) == filesToUpload[Len(filesToUpload)]

\* go func(f file.LocalFile) { ... }(f): the file goroutine number p gets.
TaskFile(p) == filesToUpload[p]

\* One iteration of the dispatch loop: in a dry run the call of Upload is
\* made in the loop, otherwise a goroutine is started for the file.
dispatchStep ==
    /\ pc = "dispatch"
    /\ pos <= Len(filesToUpload)
    /\ LET f == filesToUpload[pos]
       IN  IF UploadsInline
              THEN /\ remoteCalls' = remoteCalls +
                          (IF UploadCallsRemote(f) THEN 1 ELSE 0)
                   /\ log' = IF UploadCallsRemote(f)
                                THEN log
                                ELSE Append(log, <<"DRYRUN", f.FilePath>>)
                   /\ tasks' = tasks
              ELSE /\ tasks' = Append(tasks,
                          [f |-> TaskFile(pos), st |-> "started",
                           err |-> Nil, calls |-> 0])
                   /\ UNCHANGED <<remoteCalls, log>>
    /\ pos' = pos + 1
    /\ pc' = IF pos = Len(filesToUpload) THEN "drain" ELSE "dispatch"
    /\ UNCHANGED <<config, called, selector, fatalMsg, ch, chCap, chClosed,
                   closes, drained, received, named>>

\* The goroutines run while the process does.
Running == pc \in {"dispatch", "drain"}

\* err := f.Upload(ctx, uploadClient) in goroutine t: the remote call
\* succeeds or fails.
taskUpload(t) ==
    /\ Running
    /\ tasks[t].st = "started"
    /\ \E e \in {Nil, ErrUpload} :
          tasks' = [tasks EXCEPT ![t].st = "uploaded", ![t].err = e,
                                 ![t].calls = @ + 1]
    /\ remoteCalls' = remoteCalls +
           (IF UploadCallsRemote(tasks[t].f) THEN 1 ELSE 0)
    /\ UNCHANGED <<pc, config, called, selector, log, fatalMsg, ch, chCap,
                   chClosed, closes, pos, drained, received, named>>

\* ch <- s in goroutine t: blocks while the buffer is full; a send on a
\* closed channel panics.
taskSend(t) ==
    /\ Running
    /\ tasks[t].st = "uploaded"
    /\ chClosed \/ Len(ch) < chCap
    /\ IF chClosed
          THEN /\ pc' = "panic"
               /\ UNCHANGED <<ch, tasks>>
          ELSE /\ ch' = Append(ch, [f |-> tasks[t].f, err |-> tasks[t].err])
               /\ tasks' = [tasks EXCEPT ![t].st = "sent"]
               /\ pc' = pc
    /\ UNCHANGED <<config, called, selector, log, fatalMsg, chCap, chClosed, closes,
                   pos, remoteCalls, drained, received, named>>

\* A drain loop that runs one iteration short.
DrainCountShort == Len(filesToUpload) - 1

\* A drain loop that waits for one outcome more than there are files.
DrainCountLong == Len(filesToUpload) + 1

\* for range filesToProcess: the number of iterations of the drain loop.
DrainCount == Len(filesToUpload)

\* A drain loop that returns at the first failing outcome.
DrainFinishedOnError ==
    \/ drained >= DrainCount
    \/ \E n \in 1..Len(received) : received[n].err # Nil

\* Whether the drain loop has run all its iterations.
DrainFinished == drained >= DrainCount

\* fname, err := fi.f.Name(): the display name of the path, or an error.
Name(f, e) ==
    IF e = Nil THEN [name |-> f.FilePath, err |-> Nil]
               ELSE [name |-> "", err |-> e]

\* A drain loop that goes on to the "create gist failed" entry after it has
\* logged that the name could not be computed.
DrainLogNoContinue(fi, n) ==
    IF fi.err = Nil THEN <<>>
    ELSE (IF n.err # Nil THEN <<<<"LOG", n.err>>>> ELSE <<>>)
            \o <<<<"ERROR", "create gist failed", n.name>>>>

\* The log entry the drain loop writes for outcome fi, given the result of
\* computing the display name; <<>> when it writes none.
DrainLog(fi, n) ==
    IF fi.err = Nil THEN <<>>
    ELSE IF n.err # Nil THEN <<<<"LOG", n.err>>>>
    ELSE <<<<"ERROR", "create gist failed", n.name>>>>

\* A drain loop that ends the process at a failing outcome.
drainStepFatalOnError ==
    /\ pc = "drain"
    /\ ~DrainFinished
    /\ Len(ch) > 0 \/ chClosed
    /\ LET ok == Len(ch) > 0
           fi == IF ok THEN Head(ch) ELSE ZeroStatus
       IN  /\ ch' = IF ok THEN Tail(ch) ELSE ch
           /\ received' = Append(received,
                              [f |-> fi.f, err |-> fi.err, ok |-> ok])
           /\ IF fi.err # Nil
                 THEN Fatal(fi.err)
                 ELSE UNCHANGED <<pc, log, fatalMsg>>
    /\ drained' = drained + 1
    /\ UNCHANGED <<config, called, selector, chCap, chClosed, closes, pos, tasks,
                   remoteCalls, named>>

\* One iteration of the drain loop: fi := <-ch blocks while the channel is
\* open and empty, and yields the zero value when it is closed and empty.
drainStep ==
    /\ pc = "drain"
    /\ ~DrainFinished
    /\ Len(ch) > 0 \/ chClosed
    /\ LET ok == Len(ch) > 0
           fi == IF ok THEN Head(ch) ELSE ZeroStatus
       IN  /\ ch' = IF ok THEN Tail(ch) ELSE ch
           /\ received' = Append(received,
                              [f |-> fi.f, err |-> fi.err, ok |-> ok])
           /\ \E e \in {Nil, ErrName} :
                 /\ fi.err = Nil => e = Nil
                 /\ log' = log \o DrainLog(fi, Name(fi.f, e))
                 /\ named' = IF fi.err = Nil
                                THEN named
                                ELSE Append(named,
                                        [f |-> fi.f,
                                         name |-> Name(fi.f, e).name,
                                         err |-> Name(fi.f, e).err])
    /\ drained' = drained + 1
    /\ UNCHANGED <<pc, config, called, selector, fatalMsg, chCap, chClosed, closes,
                   pos, tasks, remoteCalls>>

\* processFiles returns and main() with it: the process exits with status 0.
processFilesReturn ==
    /\ pc = "drain"
    /\ DrainFinished
    /\ pc' = "exit"
    /\ UNCHANGED <<config, called, selector, log, fatalMsg, dispatcher>>

Next ==
    \/ InitFn
    \/ checkForArgumentErrors
    \/ getFilesToUploadEnter
    \/ getFilesToUploadStep
    \/ getFilesToUploadReturn
    \/ mainCheckErr
    \/ processFilesEnter
    \/ dispatchStep
    \/ \E t \in 1..Len(tasks) : taskUpload(t)
    \/ \E t \in 1..Len(tasks) : taskSend(t)
    \/ drainStep
    \/ processFilesReturn

Spec == Init /\ [][Next]_vars

\* The steps of the main goroutine.
MainStep ==
    \/ InitFn
    \/ checkForArgumentErrors
    \/ getFilesToUploadEnter
    \/ getFilesToUploadStep
    \/ getFilesToUploadReturn
    \/ mainCheckErr
    \/ processFilesEnter
    \/ dispatchStep
    \/ drainStep
    \/ processFilesReturn

\* The steps of the upload goroutines.
TaskStep == \E t \in 1..Len(tasks) : taskUpload(t) \/ taskSend(t)

\* The command lines explored under fairness: a file that is kept, a path
\* that is missing and a file over the ceiling.
LivePaths == {"a.txt", "missing.txt", "over.bin"}

LiveInit == Init /\ argFiles \in SeqUpTo(LivePaths, MaxFiles)

\* The program under a scheduler that lets a goroutine that can run do so,
\* with every remote call returning.
FairSpec ==
    LiveInit /\ [][Next]_vars /\ WF_vars(MainStep) /\ WF_vars(TaskStep)

\* ------------------------------------------------------------ properties

\* The number of positions of seq that hold x.
Count(seq, x) == Cardinality({n \in DOMAIN seq : seq[n] = x})

\* The paths of a list of files.
PathsOf(list) == {list[n].FilePath : n \in DOMAIN list}

\* getFilesToUpload has returned.
SelectionDone ==
    \/ pc \in {"selected", "process", "dispatch", "drain", "exit", "panic"}
    \/ pc = "fatal" /\ fatalMsg = ErrNoFiles

\* The outcome goroutine t reports.
Outcome(t) == [f |-> tasks[t].f, err |-> tasks[t].err, ok |-> TRUE]

\* C1: in upload mode, when processFiles returns it has received exactly as
\* many outcomes from the completion channel as there are validated files,
\* each one a value a task sent, and none is left in the channel.
C1_ExactlyNOutcomes ==
    (upload /\ pc = "exit") =>
        /\ Len(received) = Len(filesToUpload)
        /\ \A n \in 1..Len(received) : received[n].ok
        /\ Len(ch) = 0
        /\ \A t \in 1..Len(tasks) : tasks[t].st = "sent"

\* C1 witness: an upload run of several files has returned, the outcomes
\* having arrived in another order than the files were given.
C1_Witness ==
    /\ upload
    /\ pc = "exit"
    /\ Len(filesToUpload) >= 2
    /\ received[1].f # filesToUpload[1]

\* C2: in a dry run that reaches processFiles, no goroutine is started and
\* no remote call is made.
C2_DryRunNoTasksNoRemote ==
    (dryRun /\ "processFiles" \in called) =>
        /\ Len(tasks) = 0
        /\ remoteCalls = 0
        /\ Len(ch) = 0

\* C2 witness: a dry run over several validated files has returned.
C2_Witness ==
    /\ dryRun
    /\ pc = "exit"
    /\ Len(filesToUpload) >= 2

\* C3: a path that is not on the filesystem is never in the list
\* getFilesToUpload builds, and no goroutine, upload or outcome is for it.
C3_MissingNeverSelected ==
    /\ PathsOf(filesToUpload) \subseteq OnDisk
    /\ \A t \in 1..Len(tasks) : tasks[t].f.FilePath \in OnDisk
    /\ \A n \in 1..Len(ch) : ch[n].f.FilePath \in OnDisk
    /\ \A n \in 1..Len(received) :
          received[n].ok => received[n].f.FilePath \in OnDisk
    /\ \A n \in 1..Len(log) : log[n][1] = "DRYRUN" => log[n][2] \in OnDisk

\* C3 witness: an upload run named a missing path among others and has
\* uploaded the others.
C3_Witness ==
    /\ upload
    /\ pc = "exit"
    /\ \E n \in 1..Len(argFiles) : argFiles[n] \notin OnDisk
    /\ remoteCalls >= 1

\* C4: once getFilesToUpload has returned, every named file that exists and
\* is larger than the ceiling is in the list exactly when
\* -allow-large-files is set.
C4_SizeCeilingOverride ==
    SelectionDone =>
        \A n \in 1..Len(argFiles) :
            (argFiles[n] \in OnDisk /\ DiskSize(argFiles[n]) > maxFilesize) =>
                (argFiles[n] \in PathsOf(filesToUpload) <=> allowLargeFiles)

\* C4 witness: without the override, a file over the ceiling was named
\* together with a smaller one and only the smaller one was kept.
C4_Witness ==
    /\ SelectionDone
    /\ ~allowLargeFiles
    /\ \E n \in 1..Len(argFiles) :
          argFiles[n] \in OnDisk /\ DiskSize(argFiles[n]) > maxFilesize
    /\ Len(filesToUpload) >= 1

\* C5: when getFilesToUpload has returned an empty list, it has returned
\* the "no files to upload" error, the only step left is the fatal exit
\* with that error, and processFiles is never entered.
C5_EmptyListIsFatal ==
    (SelectionDone /\ Len(filesToUpload) = 0) =>
        /\ selErr = ErrNoFiles
        /\ pc \in {"selected", "fatal"}
        /\ pc = "fatal" => fatalMsg = ErrNoFiles
        /\ "processFiles" \notin called

\* C5 witness: every one of several named paths was excluded and the run
\* ended fatally.
C5_Witness ==
    /\ pc = "fatal"
    /\ fatalMsg = ErrNoFiles
    /\ Len(argFiles) >= 2
    /\ Len(filesToUpload) = 0

\* C6: with -upload and -dryrun both set, the run is only ever at startup,
\* in argument validation or at its fatal exit: no existence or size query
\* is made, the selector is not entered and no upload is attempted.
C6_BothFlagsFatalFirst ==
    (upload /\ dryRun) =>
        /\ pc \in {"init", "main", "fatal"}
        /\ fsQueries = <<>>
        /\ "getFilesToUpload" \notin called
        /\ Len(tasks) = 0
        /\ remoteCalls = 0

\* C6 witness: both flags were set with a token and files, and the run
\* ended with the conflict error.
C6_Witness ==
    /\ upload
    /\ dryRun
    /\ Len(argFiles) >= 1
    /\ pc = "fatal"
    /\ fatalMsg = FatalBoth

\* C7: once the selector or the dispatcher has been entered, exactly one of
\* upload and dryRun is set, and upload comes with at least one path.
C7_ConfigInvariant ==
    ("getFilesToUpload" \in called \/ "processFiles" \in called) =>
        /\ upload # dryRun
        /\ upload => Len(argFiles) >= 1

\* C7 witness: the dispatcher has been entered in upload mode.
C7_Witness ==
    /\ "processFiles" \in called
    /\ upload
    /\ pc = "dispatch"

\* C8: with an empty token the run is only ever at startup or at its fatal
\* exit with the missing-token message: no function of main is entered, no
\* filesystem query is made and no upload is attempted.
C8_MissingTokenFatal ==
    (githubToken = "") =>
        /\ pc \in {"init", "fatal"}
        /\ pc = "fatal" => fatalMsg = FatalNoToken
        /\ called = {}
        /\ fsQueries = <<>>
        /\ Len(tasks) = 0
        /\ remoteCalls = 0

\* C8 witness: an otherwise valid upload command line ended fatally for
\* want of the token.
C8_Witness ==
    /\ githubToken = ""
    /\ upload
    /\ ~dryRun
    /\ Len(argFiles) >= 1
    /\ pc = "fatal"

\* The log entries the drain loop writes for failing outcomes.
FailureEntries == {n \in 1..Len(log) : log[n][1] \in {"ERROR", "LOG"}}

\* The failing outcomes received so far.
FailuresReceived == {n \in 1..Len(received) : received[n].err # Nil}

\* C9: in upload mode, whichever uploads fail, when processFiles returns
\* every file has had its own goroutine make its upload once and every
\* task's outcome has been collected; and at all times each failing outcome
\* received has its log entry.
C9_FailuresDoNotStopSiblings ==
    upload =>
        /\ Cardinality(FailureEntries) = Cardinality(FailuresReceived)
        /\ pc = "exit" =>
              /\ Len(tasks) = Len(filesToUpload)
              /\ \A t \in 1..Len(tasks) :
                    /\ tasks[t].f = filesToUpload[t]
                    /\ tasks[t].calls = 1
                    /\ tasks[t].st = "sent"
                    /\ Count(received, Outcome(t)) =
                          Cardinality({u \in 1..Len(tasks) :
                                          Outcome(u) = Outcome(t)})

\* C9 witness: the first outcome collected was a failure and a later one a
\* success, and the run has returned.
C9_Witness ==
    /\ upload
    /\ pc = "exit"
    /\ Len(received) >= 2
    /\ received[1].err # Nil
    /\ received[2].err = Nil

\* C10: a run that has entered processFiles never ends fatally and can only
\* stop at the normal exit, however many uploads failed; a fatal exit
\* carries a configuration error or the empty-list error.
C10_UploadFailuresNotFatal ==
    /\ "processFiles" \in called =>
          /\ pc \notin {"fatal", "panic"}
          /\ fatalMsg = ""
          /\ ~(ENABLED Next) => pc = "exit"
    /\ pc = "fatal" =>
          fatalMsg \in {FatalNoToken, FatalNothing, FatalBoth, FatalNoArgs,
                        ErrNoFiles}

\* C10 witness: every upload of a run of several files failed and the run
\* ended with the normal exit.
C10_Witness ==
    /\ upload
    /\ pc = "exit"
    /\ Len(received) >= 2
    /\ \A n \in 1..Len(received) : received[n].err # Nil

\* The goroutines that have sent their outcome.
Sent == {t \in 1..Len(tasks) : tasks[t].st = "sent"}

\* C11: in upload mode the channel has capacity N for N files, at most N
\* sends occur, the buffer never holds more than N outcomes, and a goroutine
\* that has finished its upload finds room in the open channel at once,
\* wherever the dispatcher is.
C11_SendNeverBlocks ==
    (upload /\ "processFiles" \in called) =>
        /\ chCap = Len(filesToUpload)
        /\ Len(ch) <= chCap
        /\ Cardinality(Sent) <= chCap
        /\ Len(ch) + Len(received) = Cardinality(Sent)
        /\ \A t \in 1..Len(tasks) :
              (Running /\ tasks[t].st = "uploaded") =>
                  /\ Len(ch) < chCap
                  /\ ~chClosed
                  /\ ENABLED taskSend(t)

\* C11 witness: every one of several goroutines has sent before the
\* dispatcher received anything, so the buffer is full.
C11_Witness ==
    /\ upload
    /\ pc = "drain"
    /\ drained = 0
    /\ chCap >= 2
    /\ Len(ch) = chCap

\* The outcomes in the channel, as the dispatcher will receive them.
Buffered == [n \in 1..Len(ch) |-> [f |-> ch[n].f, err |-> ch[n].err,
                                   ok |-> TRUE]]

\* C12: in upload mode one goroutine is started per validated file, for
\* that file, in list order; each makes its remote call at most once and
\* exactly once before it sends; the outcomes sent (buffered or received)
\* are, as a multiset, the (file, result) pairs of the goroutines that have
\* sent, so that at the return the outcomes collected are those of the
\* files' own uploads.
C12_OneTaskPerFile ==
    (upload /\ "processFiles" \in called) =>
        /\ Len(tasks) = IF pc = "dispatch" THEN pos - 1
                                           ELSE Len(filesToUpload)
        /\ \A t \in 1..Len(tasks) :
              /\ tasks[t].f = filesToUpload[t]
              /\ tasks[t].calls = IF tasks[t].st = "started" THEN 0 ELSE 1
              /\ tasks[t].st = "started" => tasks[t].err = Nil
        /\ remoteCalls =
              Cardinality({t \in 1..Len(tasks) : tasks[t].calls = 1})
        /\ LET delivered == received \o Buffered
           IN  /\ Len(delivered) = Cardinality(Sent)
               /\ \A n \in 1..Len(delivered) :
                     Count(delivered, delivered[n]) =
                         Cardinality({u \in Sent : Outcome(u) = delivered[n]})
        /\ pc = "exit" => Cardinality(Sent) = Len(filesToUpload)

\* C12 witness: three different files were uploaded with different results
\* and their outcomes collected in another order than the list's.
C12_Witness ==
    /\ upload
    /\ pc = "exit"
    /\ Len(filesToUpload) = 3
    /\ Cardinality(PathsOf(filesToUpload)) = 3
    /\ received[1].f = filesToUpload[3]
    /\ received[1].err # received[2].err

\* C13: in upload mode, with fair scheduling and remote calls that return,
\* a run that has entered processFiles reaches its return; and at the
\* return every goroutine started has finished its upload and its outcome
\* has been received, whatever the results.
C13_ProcessFilesReturns ==
    /\ (upload /\ "processFiles" \in called) ~> (pc = "exit")
    /\ [](upload /\ pc = "exit" =>
             /\ Len(tasks) = Len(filesToUpload)
             /\ \A t \in 1..Len(tasks) :
                   tasks[t].st = "sent" /\ tasks[t].calls = 1
             /\ Len(ch) = 0
             /\ Len(received) = Len(tasks))

\* C13 witness: a run of several uploads has returned, a success having
\* been collected first and a failure after it.
C13_Witness ==
    /\ upload
    /\ pc = "exit"
    /\ Len(tasks) >= 2
    /\ received[1].err = Nil
    /\ received[2].err # Nil

\* C14: in a dry run that has entered processFiles the channel is closed
\* and empty from the start, the dispatcher can always take its next step
\* until it has returned, every receive yields the empty outcome with a nil
\* error, the return comes after N receives, and no error entry is logged.
C14_DryRunDrainsClosedChannel ==
    (dryRun /\ "processFiles" \in called) =>
        /\ chClosed
        /\ Len(ch) = 0
        /\ pc \in {"dispatch", "drain", "exit"}
        /\ pc # "exit" => ENABLED MainStep
        /\ Len(received) = drained
        /\ drained <= Len(filesToUpload)
        /\ pc = "exit" => drained = Len(filesToUpload)
        /\ \A n \in 1..Len(received) :
              received[n] = [f |-> ZeroStatus.f, err |-> Nil, ok |-> FALSE]
        /\ FailureEntries = {}

\* C14 witness: a dry run over three files has made its three receives on
\* the closed channel and returned.
C14_Witness ==
    /\ dryRun
    /\ chClosed
    /\ pc = "exit"
    /\ drained = 3
    /\ Len(received) = 3

\* A received outcome that carries an error.
IsFailure(r) == r.err # Nil

\* A log entry of the drain loop.
IsDrainEntry(e) == e[1] \in {"ERROR", "LOG"}

\* C15: the drain loop computes the display name exactly for the failing
\* outcomes, in the order received; it writes one entry per failing
\* outcome, the name error when the name cannot be computed (and then no
\* "create gist failed" entry) and otherwise the "create gist failed" entry
\* tagged with the name computed; successful outcomes add no entry; and a
\* name failure does not stop the loop, which still receives every outcome.
C15_DrainLogging ==
    (upload /\ "processFiles" \in called) =>
        LET fails == SelectSeq(received, IsFailure)
            entries == SelectSeq(log, IsDrainEntry)
        IN  /\ Len(named) = Len(fails)
            /\ Len(entries) = Len(fails)
            /\ \A k \in 1..Len(named) :
                  /\ named[k].f = fails[k].f
                  /\ entries[k] =
                        IF named[k].err # Nil
                           THEN <<"LOG", named[k].err>>
                           ELSE <<"ERROR", "create gist failed",
                                  named[k].name>>
            /\ (pc = "drain" /\ ~DrainFinished /\ Len(ch) > 0) =>
                  ENABLED drainStep
            /\ pc = "exit" => Len(received) = Len(filesToUpload)

\* C15 witness: of three outcomes one succeeded, the first failing one had
\* no computable name and the second failing one had, and the run returned.
C15_Witness ==
    /\ upload
    /\ pc = "exit"
    /\ Len(received) = 3
    /\ Len(named) = 2
    /\ named[1].err # Nil
    /\ named[2].err = Nil

\* The paths the selector's loop has been through.
Processed ==
    IF pc = "loop" THEN SubSeq(argFiles, 1, idx - 1)
    ELSE IF SelectionDone THEN argFiles
    ELSE <<>>

\* A path passes the existence check and, unless large files are allowed,
\* the size check.
Passes(p) ==
    /\ Exists(New(p, dryRun)) = Nil
    /\ allowLargeFiles \/ Size(New(p, dryRun)) <= maxFilesize

\* A path fails one of the two checks.
Excluded(p) == ~Passes(p)

\* A warning entry of the log.
IsWarning(e) == e[1] = "WARNING"

\* C16: the list the selector has built is the files of the paths gone
\* through that pass the checks, in input order with duplicates kept; the
\* warnings logged are one per excluded path, in input order, each for that
\* path and for the check it failed; a path's inclusion depends on that
\* path alone.
C16_SelectionIsFilter ==
    LET kept == SelectSeq(Processed, Passes)
        dropped == SelectSeq(Processed, Excluded)
        warnings == SelectSeq(log, IsWarning)
    IN  /\ filesToUpload = [n \in 1..Len(kept) |-> New(kept[n], dryRun)]
        /\ Len(warnings) = Len(dropped)
        /\ \A k \in 1..Len(dropped) :
              warnings[k] =
                  <<"WARNING",
                    IF Exists(New(dropped[k], dryRun)) # Nil
                       THEN "not found" ELSE "exceeds",
                    dropped[k]>>

\* C16 witness: a path was named twice with an excluded path between the
\* two, and the returned list holds it twice.
C16_Witness ==
    /\ SelectionDone
    /\ Len(argFiles) = 3
    /\ argFiles[1] = argFiles[3]
    /\ Excluded(argFiles[2])
    /\ Len(filesToUpload) = 2
    /\ filesToUpload[1] = filesToUpload[2]

\* C17: with large files not allowed, once the selector has returned, a
\* named file that exists is in the list exactly when its size is at most
\* the ceiling of 50 KB: a file of exactly the ceiling's size is kept and a
\* file one byte larger is dropped.
C17_CeilingIsInclusive ==
    (SelectionDone /\ ~allowLargeFiles) =>
        /\ maxFilesize = 50 * KB
        /\ \A n \in 1..Len(argFiles) :
              argFiles[n] \in OnDisk =>
                  /\ argFiles[n] \in PathsOf(filesToUpload)
                        <=> DiskSize(argFiles[n]) <= maxFilesize
                  /\ DiskSize(argFiles[n]) = maxFilesize
                        => argFiles[n] \in PathsOf(filesToUpload)
                  /\ DiskSize(argFiles[n]) = maxFilesize + 1
                        => argFiles[n] \notin PathsOf(filesToUpload)

\* C17 witness: a file of exactly the ceiling's size and a file one byte
\* larger were named, and only the first is in the returned list.
C17_Witness ==
    /\ SelectionDone
    /\ ~allowLargeFiles
    /\ \E n \in 1..Len(argFiles) : argFiles[n] \in OnDisk
                                   /\ DiskSize(argFiles[n]) = maxFilesize + 1
    /\ Len(filesToUpload) = 1
    /\ DiskSize(filesToUpload[1].FilePath) = maxFilesize

\* C18: no goroutine ever sends on a closed channel (which would panic);
\* close(ch) is called at most once, and only in a dry run, where no
\* goroutine exists; in upload mode the channel is never closed.
C18_NoSendOnClosedChannel ==
    /\ pc # "panic"
    /\ closes <= 1
    /\ chClosed <=> closes = 1
    /\ chClosed => dryRun /\ Len(tasks) = 0
    /\ Len(tasks) > 0 => ~chClosed
    /\ upload => ~chClosed

\* C18 witness: in upload mode several goroutines have sent their outcomes
\* on the channel, which was never closed.
C18_Witness ==
    /\ upload
    /\ pc = "drain"
    /\ closes = 0
    /\ ~chClosed
    /\ Cardinality(Sent) >= 2
    /\ drained = 1

====
